---------------------------- MODULE Spec2Model ----------------------------
(***************************************************************************)
(* Master-mode TWI (I2C) driver of src/src/i2.c, as a state machine.       *)
(*                                                                         *)
(* The state is the four hardware registers the driver touches (TWCR,      *)
(* TWSR, TWDR, TWBR), the driver's position (pc, rstack, the locals of the *)
(* running functions) and a log of the register accesses it has made.      *)
(* The TWI peripheral is the environment: it raises the completion flag    *)
(* TWINT and reports a status code, or never does.                         *)
(***************************************************************************)
EXTENDS Integers, Sequences, FiniteSets, TLC

VARIABLES
    TWCR,        \* control register, as the driver reads it back
    TWSR,        \* status register: status in bits 7..3, prescaler in bits 1..0
    TWDR,        \* data register
    TWBR,        \* bit-rate register
    F_CPU,       \* processor clock of the build (macro supplied by the build)
    charSigned,  \* whether plain char is signed in the build
    pc,          \* the driver's position
    rstack,      \* return positions of the calls in progress
    cur,         \* the public call in progress, or the last one made
    byte,        \* parameter `byte` of i2cSendByte
    i,           \* loop counter of i2cSendData
    retval,      \* what the last public call returned to the caller
    log,         \* register accesses made by the driver
    mark,        \* length of log when the call in progress was made
    lastCmd,     \* last value the driver wrote to TWCR, and which function wrote it
    phase,       \* position of the caller in the linear transaction
    txn,         \* arguments of the linear transaction
    probe        \* what the i2cSendAddress calls with txn's arguments have written

vars == <<TWCR, TWSR, TWDR, TWBR, F_CPU, charSigned, pc, rstack, cur, byte, i,
          retval, log, mark, lastCmd, phase, txn, probe>>

-----------------------------------------------------------------------------
(* Bounds of the model *)

\* longest argument list given to i2cSendData
MaxBytes == 2

\* processor clocks of the builds, in MHz: 1 .. MaxCpuMHz
MaxCpuMHz == 20

-----------------------------------------------------------------------------
(* Program constants *)

\* #define F_SCL 400000UL
F_SCL == 400000

\* status codes and mask of <util/twi.h>, as used by the driver
TW_START == 8
TW_MT_SLA_ACK == 24
TW_MT_DATA_ACK == 40
TW_STATUS_MASK == 248

\* the command bytes the driver writes to TWCR
CMD_START == 164
\* a transmit command that also enables the TWI interrupt
CMD_SEND_WithIE == 132 + 1
CMD_SEND == 132
\* a stop command that also sets TWSTA (0xB4 for 0x94)
CMD_STOP_WithStart == 148 + 32
CMD_STOP == 148

-----------------------------------------------------------------------------
(* C arithmetic *)

Bit(x, k) == (x \div (2 ^ k)) % 2

\* x & y and x | y on the low 8 bits
BitAnd(x, y) ==
    LET b(k) == Bit(x, k) * Bit(y, k)
    IN  b(0) + 2 * b(1) + 4 * b(2) + 8 * b(3) + 16 * b(4) + 32 * b(5) + 64 * b(6) + 128 * b(7)

BitOr(x, y) ==
    LET b(k) == IF Bit(x, k) + Bit(y, k) > 0 THEN 1 ELSE 0
    IN  b(0) + 2 * b(1) + 4 * b(2) + 8 * b(3) + 16 * b(4) + 32 * b(5) + 64 * b(6) + 128 * b(7)

\* a value stored in an 8-bit register
U8(x) == x % 256

\* an int in 0..255 converted to plain char
CharOf(x) == IF charSigned /\ U8(x) >= 128 THEN U8(x) - 256 ELSE U8(x)


-----------------------------------------------------------------------------
(* Inputs *)

\* 7-bit slave addresses and direction flags given to i2cSendAddress
Addrs == {0, 80, 127}
RWs == {0, 1}

\* data bytes given to i2cSendByte and i2cSendData
Bytes == {0, 165}

\* argument lists of i2cSendData: argc = Len(bs) <= MaxBytes
RECURSIVE SeqsUpTo(_)
SeqsUpTo(n) ==
    IF n = 0 THEN {<<>>}
    ELSE LET shorter == SeqsUpTo(n - 1)
         IN  shorter \cup {Append(bs, b) : bs \in {q \in shorter : Len(q) = n - 1}, b \in Bytes}

ByteLists == SeqsUpTo(MaxBytes)

\* expected codes given to i2cCheckStatus by a caller
Codes == {TW_START, TW_MT_SLA_ACK, TW_MT_DATA_ACK, 248}

\* status codes the peripheral reports in master mode: START, SLA+W ACK,
\* DATA ACK, DATA NACK, SLA+R ACK
HwStatuses == {8, 24, 40, 48, 64}

\* processor clocks of the builds
CpuClocks == {k * 1000000 : k \in 1..MaxCpuMHz}

NoCall == [fn |-> "none", a |-> 0, rw |-> 0, bs |-> <<>>, c |-> 0]
NoTxn == [a |-> -1, rw |-> -1, bs |-> <<>>]

-----------------------------------------------------------------------------
(* The log of register accesses *)

Wr(reg, v) == [k |-> "write", r |-> reg, v |-> v, x |-> 0]
Wait == [k |-> "wait", r |-> "TWCR", v |-> 128, x |-> 0]
Chk(status, res) == [k |-> "check", r |-> "TWSR", v |-> status, x |-> res]

-----------------------------------------------------------------------------
(* Register semantics of the peripheral *)

\* Writing 1 to TWINT clears the flag: "We set TWINT to initiate a task, and
\* TWINT is set to 0 during a task."
WriteTWCR(v) ==
    IF Bit(v, 7) = 1 THEN U8(v) - 128
    ELSE U8(v) + 128 * Bit(TWCR, 7)

\* Only the prescaler bits of TWSR are writable; the status bits are read-only.
WriteTWSR(v) == BitAnd(TWSR, TW_STATUS_MASK) + BitAnd(v, 3)

\* The command in progress finishes: TWINT becomes 1 again and the status
\* code of the finished task can be read.  Nothing forces this to happen.
HwComplete ==
    /\ Bit(TWCR, 7) = 0
    /\ Bit(TWCR, 2) = 1
    /\ Bit(TWCR, 4) = 0
    /\ \E s \in HwStatuses :
          /\ TWCR' = TWCR + 128
          /\ TWSR' = s + BitAnd(TWSR, 3)
    /\ UNCHANGED <<TWDR, TWBR, F_CPU, charSigned, pc, rstack, cur, byte, i,
                   retval, log, mark, lastCmd, phase, txn, probe>>

-----------------------------------------------------------------------------
(* The driver *)

Return ==
    /\ pc' = Head(rstack)
    /\ rstack' = Tail(rstack)

\* the divisor without the "- 2" of the SCL frequency equation
BitRate_NoOffset == U8(F_CPU \div (8 * F_SCL))

\* TWBR = ((F_CPU / (8 * F_SCL)) - 2): the unsigned long result as stored in the
\* 8-bit register.  A quotient below 2 wraps to 2^32 - 2 or 2^32 - 1, whose low
\* byte is that of -2 or -1, since 256 divides 2^32.
BitRate == U8((F_CPU \div (8 * F_SCL)) - 2)

i2cInit ==
    /\ pc = "i2cInit"
    /\ TWSR' = WriteTWSR(0)
    /\ TWBR' = BitRate
    /\ log' = log \o <<Wr("TWSR", 0), Wr("TWBR", BitRate)>>
    /\ Return
    /\ UNCHANGED <<TWCR, TWDR, F_CPU, charSigned, cur, byte, i, retval, mark,
                   lastCmd, phase, txn, probe>>

\* return (TW_STATUS == expectedStatus), TW_STATUS = (TWSR & TW_STATUS_MASK)
i2cCheckStatus(expectedStatus) ==
    IF BitAnd(TWSR, TW_STATUS_MASK) = expectedStatus THEN 1 ELSE 0

\* a caller's own call of i2cCheckStatus(c)
i2cCheckStatus_call ==
    /\ pc = "i2cCheckStatus"
    /\ retval' = i2cCheckStatus(CharOf(cur.c))
    /\ log' = Append(log, Chk(BitAnd(TWSR, TW_STATUS_MASK), i2cCheckStatus(CharOf(cur.c))))
    /\ Return
    /\ UNCHANGED <<TWCR, TWSR, TWDR, TWBR, F_CPU, charSigned, cur, byte, i, mark,
                   lastCmd, phase, txn, probe>>

\* a wait that acknowledges the flag it has seen (TWCR |= 0x80 clears TWINT)
i2cAwaitCompletion_ClearsFlag ==
    /\ pc = "i2cAwaitCompletion"
    /\ IF BitAnd(TWCR, 128) # 0
       THEN /\ log' = Append(log, Wait)
            /\ TWCR' = WriteTWCR(TWCR)
            /\ Return
       ELSE UNCHANGED <<log, pc, rstack, TWCR>>
    /\ UNCHANGED <<TWSR, TWDR, TWBR, F_CPU, charSigned, cur, byte, i, retval,
                   mark, lastCmd, phase, txn, probe>>

\* a wait that gives up when the flag is not set
i2cAwaitCompletion_GivesUp ==
    /\ pc = "i2cAwaitCompletion"
    /\ log' = Append(log, Wait)
    /\ Return
    /\ UNCHANGED <<TWCR, TWSR, TWDR, TWBR, F_CPU, charSigned, cur, byte, i, retval,
                   mark, lastCmd, phase, txn, probe>>

\* while (!(TWCR & 0x80));
i2cAwaitCompletion ==
    /\ pc = "i2cAwaitCompletion"
    /\ IF BitAnd(TWCR, 128) # 0
       THEN /\ log' = Append(log, Wait)
            /\ Return
       ELSE UNCHANGED <<log, pc, rstack>>
    /\ UNCHANGED <<TWCR, TWSR, TWDR, TWBR, F_CPU, charSigned, cur, byte, i, retval,
                   mark, lastCmd, phase, txn, probe>>

\* a start that also selects a prescaler (TWSR = 1)
i2cStart_SetsPrescaler ==
    /\ pc = "i2cStart"
    /\ TWSR' = WriteTWSR(1)
    /\ TWCR' = WriteTWCR(CMD_START)
    /\ lastCmd' = [by |-> "i2cStart", v |-> CMD_START]
    /\ log' = Append(log, Wr("TWCR", CMD_START))
    /\ pc' = "i2cAwaitCompletion"
    /\ rstack' = <<"i2cStart_chk">> \o rstack
    /\ UNCHANGED <<TWDR, TWBR, F_CPU, charSigned, cur, byte, i, retval, mark,
                   phase, txn, probe>>

\* a start that checks the status without waiting for the flag
i2cStart_NoWait ==
    /\ pc = "i2cStart"
    /\ TWCR' = WriteTWCR(CMD_START)
    /\ lastCmd' = [by |-> "i2cStart", v |-> CMD_START]
    /\ log' = Append(log, Wr("TWCR", CMD_START))
    /\ pc' = "i2cStart_chk"
    /\ UNCHANGED <<TWSR, TWDR, TWBR, F_CPU, charSigned, cur, byte, i, retval, mark,
                   phase, txn, probe, rstack>>

\* TWCR = 0xA4; i2cAwaitCompletion();
i2cStart ==
    /\ pc = "i2cStart"
    /\ TWCR' = WriteTWCR(CMD_START)
    /\ lastCmd' = [by |-> "i2cStart", v |-> CMD_START]
    /\ log' = Append(log, Wr("TWCR", CMD_START))
    /\ pc' = "i2cAwaitCompletion"
    /\ rstack' = <<"i2cStart_chk">> \o rstack
    /\ UNCHANGED <<TWSR, TWDR, TWBR, F_CPU, charSigned, cur, byte, i, retval, mark,
                   phase, txn, probe>>

\* a start that is issued again when the status is not TW_START
i2cStart_chk_Retry ==
    /\ pc = "i2cStart_chk"
    /\ log' = Append(log, Chk(BitAnd(TWSR, TW_STATUS_MASK), i2cCheckStatus(CharOf(TW_START))))
    /\ IF i2cCheckStatus(CharOf(TW_START)) = 1
       THEN Return
       ELSE pc' = "i2cStart" /\ UNCHANGED rstack
    /\ UNCHANGED <<TWCR, TWSR, TWDR, TWBR, F_CPU, charSigned, cur, byte, i, retval,
                   mark, lastCmd, phase, txn, probe>>

\* i2cCheckStatus(TW_START); the result is discarded
i2cStart_chk ==
    /\ pc = "i2cStart_chk"
    /\ log' = Append(log, Chk(BitAnd(TWSR, TW_STATUS_MASK), i2cCheckStatus(CharOf(TW_START))))
    /\ Return
    /\ UNCHANGED <<TWCR, TWSR, TWDR, TWBR, F_CPU, charSigned, cur, byte, i, retval,
                   mark, lastCmd, phase, txn, probe>>

\* The record of the calls i2cSendAddress(txn.a, txn.rw): how many there were
\* (capped at 2), the bytes they wrote to TWDR, whether the first of them found
\* the registers as reset leaves them, and whether a later one found the
\* control, status and data registers all different from that.
Probed(out) ==
    IF probe.n = 0
    THEN [n |-> 1, out |-> {out}, differ |-> FALSE,
          reset |-> (TWCR = 0 /\ TWDR = 255 /\ BitAnd(TWSR, TW_STATUS_MASK) = 248)]
    ELSE [probe EXCEPT !.n = 2,
                       !.out = probe.out \cup {out},
                       !.differ = probe.differ
                                  \/ (TWCR # 0 /\ TWDR # 255
                                      /\ BitAnd(TWSR, TW_STATUS_MASK) # 248)]

\* an address byte that keeps bit 0 of what the data register held (TWDR |= ...)
AddressByte_KeepsOld(address, rw) ==
    IF rw # 0 THEN U8(BitAnd(address * 2, 254))
    ELSE U8(BitOr(address * 2, BitAnd(TWDR, 1)))

\* the byte i2cSendAddress puts in TWDR
AddressByte(address, rw) ==
    IF rw # 0 THEN U8(BitAnd(address * 2, 254))
    ELSE U8(BitOr(address * 2, 1))

i2cSendAddress ==
    /\ pc = "i2cSendAddress"
    /\ TWDR' = AddressByte(CharOf(cur.a), cur.rw)
    /\ TWCR' = WriteTWCR(CMD_SEND)
    /\ lastCmd' = [by |-> "i2cSendAddress", v |-> CMD_SEND]
    /\ log' = log \o <<Wr("TWDR", TWDR'), Wr("TWCR", CMD_SEND)>>
    /\ probe' = IF cur.a = txn.a /\ cur.rw = txn.rw THEN Probed(TWDR') ELSE probe
    /\ pc' = "i2cAwaitCompletion"
    /\ rstack' = <<"i2cSendAddress_chk">> \o rstack
    /\ UNCHANGED <<TWSR, TWBR, F_CPU, charSigned, cur, byte, i, retval, mark,
                   phase, txn>>

\* i2cCheckStatus(TW_MT_SLA_ACK); the result is discarded
i2cSendAddress_chk ==
    /\ pc = "i2cSendAddress_chk"
    /\ log' = Append(log, Chk(BitAnd(TWSR, TW_STATUS_MASK), i2cCheckStatus(CharOf(TW_MT_SLA_ACK))))
    /\ Return
    /\ UNCHANGED <<TWCR, TWSR, TWDR, TWBR, F_CPU, charSigned, cur, byte, i, retval,
                   mark, lastCmd, phase, txn, probe>>

\* a send that issues the command before it fills the data register
i2cSendByte_CmdFirst ==
    /\ pc = "i2cSendByte"
    /\ TWDR' = U8(byte)
    /\ TWCR' = WriteTWCR(CMD_SEND)
    /\ lastCmd' = [by |-> "i2cSendByte", v |-> CMD_SEND]
    /\ log' = log \o <<Wr("TWCR", CMD_SEND), Wr("TWDR", U8(byte))>>
    /\ pc' = "i2cAwaitCompletion"
    /\ rstack' = <<"i2cSendByte_chk">> \o rstack
    /\ UNCHANGED <<TWSR, TWBR, F_CPU, charSigned, cur, byte, i, retval, mark,
                   phase, txn, probe>>

\* TWDR = byte; TWCR = 0x84; i2cAwaitCompletion();
i2cSendByte ==
    /\ pc = "i2cSendByte"
    /\ TWDR' = U8(byte)
    /\ TWCR' = WriteTWCR(CMD_SEND)
    /\ lastCmd' = [by |-> "i2cSendByte", v |-> CMD_SEND]
    /\ log' = log \o <<Wr("TWDR", U8(byte)), Wr("TWCR", CMD_SEND)>>
    /\ pc' = "i2cAwaitCompletion"
    /\ rstack' = <<"i2cSendByte_chk">> \o rstack
    /\ UNCHANGED <<TWSR, TWBR, F_CPU, charSigned, cur, byte, i, retval, mark,
                   phase, txn, probe>>

\* i2cCheckStatus(TW_MT_DATA_ACK); the result is discarded
i2cSendByte_chk ==
    /\ pc = "i2cSendByte_chk"
    /\ log' = Append(log, Chk(BitAnd(TWSR, TW_STATUS_MASK), i2cCheckStatus(CharOf(TW_MT_DATA_ACK))))
    /\ Return
    /\ UNCHANGED <<TWCR, TWSR, TWDR, TWBR, F_CPU, charSigned, cur, byte, i, retval,
                   mark, lastCmd, phase, txn, probe>>

\* a loop that gives up once a byte was not acknowledged
i2cSendData_StopOnNack ==
    /\ pc = "i2cSendData"
    /\ IF i < Len(cur.bs) /\ (i = 0 \/ i2cCheckStatus(CharOf(TW_MT_DATA_ACK)) = 1)
       THEN /\ byte' = CharOf(cur.bs[i + 1])
            /\ i' = i + 1
            /\ pc' = "i2cSendByte"
            /\ rstack' = <<"i2cSendData">> \o rstack
       ELSE /\ Return
            /\ UNCHANGED <<byte, i>>
    /\ UNCHANGED <<TWCR, TWSR, TWDR, TWBR, F_CPU, charSigned, cur, retval, log,
                   mark, lastCmd, phase, txn, probe>>

\* for (int i = 0; i < argc; i++) i2cSendByte(va_arg(valist, int));
i2cSendData ==
    /\ pc = "i2cSendData"
    /\ IF i < Len(cur.bs)
       THEN /\ byte' = CharOf(cur.bs[i + 1])
            /\ i' = i + 1
            /\ pc' = "i2cSendByte"
            /\ rstack' = <<"i2cSendData">> \o rstack
       ELSE /\ Return
            /\ UNCHANGED <<byte, i>>
    /\ UNCHANGED <<TWCR, TWSR, TWDR, TWBR, F_CPU, charSigned, cur, retval, log,
                   mark, lastCmd, phase, txn, probe>>

\* a stop that waits for the completion flag like the other commands
i2cStop_Waits ==
    /\ pc = "i2cStop"
    /\ TWCR' = WriteTWCR(CMD_STOP)
    /\ lastCmd' = [by |-> "i2cStop", v |-> CMD_STOP]
    /\ log' = Append(log, Wr("TWCR", CMD_STOP))
    /\ pc' = "i2cAwaitCompletion"
    /\ UNCHANGED <<TWSR, TWDR, TWBR, F_CPU, charSigned, cur, byte, i, retval, mark,
                   phase, txn, probe, rstack>>

\* TWCR = 0x94;
i2cStop ==
    /\ pc = "i2cStop"
    /\ TWCR' = WriteTWCR(CMD_STOP)
    /\ lastCmd' = [by |-> "i2cStop", v |-> CMD_STOP]
    /\ log' = Append(log, Wr("TWCR", CMD_STOP))
    /\ Return
    /\ UNCHANGED <<TWSR, TWDR, TWBR, F_CPU, charSigned, cur, byte, i, retval, mark,
                   phase, txn, probe>>

Driver ==
    \/ i2cInit
    \/ i2cStart
    \/ i2cStart_chk
    \/ i2cSendAddress
    \/ i2cSendAddress_chk
    \/ i2cAwaitCompletion
    \/ i2cCheckStatus_call
    \/ i2cSendByte
    \/ i2cSendByte_chk
    \/ i2cSendData
    \/ i2cStop

-----------------------------------------------------------------------------
(* Callers *)

\* the public operations of i2c.h
Calls ==
    {[NoCall EXCEPT !.fn = f] :
        f \in {"i2cInit", "i2cStart", "i2cAwaitCompletion", "i2cStop"}}
    \cup {[NoCall EXCEPT !.fn = "i2cSendAddress", !.a = a, !.rw = rw] : a \in Addrs, rw \in RWs}
    \cup {[NoCall EXCEPT !.fn = "i2cCheckStatus", !.c = c] : c \in Codes}
    \cup {[NoCall EXCEPT !.fn = "i2cSendByte", !.bs = <<b>>] : b \in Bytes}
    \cup {[NoCall EXCEPT !.fn = "i2cSendData", !.bs = bs] : bs \in ByteLists}

\* the caller makes the call c
Enter(c) ==
    /\ pc = "idle"
    /\ cur' = c
    /\ pc' = c.fn
    /\ rstack' = <<"idle">>
    /\ byte' = IF c.fn = "i2cSendByte" THEN CharOf(c.bs[1]) ELSE byte
    /\ i' = 0
    /\ retval' = "void"
    /\ UNCHANGED <<TWCR, TWSR, TWDR, TWBR, F_CPU, charSigned, lastCmd, txn, probe>>

\* a caller that makes any call in any order: the driver has no protection
\* against out-of-order calls
Caller ==
    /\ \E c \in Calls : Enter(c)
    /\ log' = <<>>
    /\ mark' = 0
    /\ UNCHANGED phase

\* the call the linear flow makes in each phase
TxnCall(p) ==
    CASE p = 0 -> [NoCall EXCEPT !.fn = "i2cInit"]
      [] p = 1 -> [NoCall EXCEPT !.fn = "i2cStart"]
      [] p = 2 -> [NoCall EXCEPT !.fn = "i2cSendAddress", !.a = txn.a, !.rw = txn.rw]
      [] p = 3 -> [NoCall EXCEPT !.fn = "i2cSendData", !.bs = txn.bs]
      [] OTHER -> [NoCall EXCEPT !.fn = "i2cStop"]

\* the linear flow init, start, send-address, send-byte*, stop
Transaction ==
    /\ phase < 5
    /\ Enter(TxnCall(phase))
    /\ phase' = phase + 1
    /\ mark' = Len(log)
    /\ UNCHANGED log

-----------------------------------------------------------------------------
(* Specifications *)

\* The state after reset: no status (0xF8), registers at their reset values.
\* The prescaler bits are those in srs: zero, or set by code that ran before.
InitWith(clocks, txns, srs) ==
    /\ TWCR = 0
    /\ TWSR \in srs
    /\ TWDR = 255
    /\ TWBR = 0
    /\ F_CPU \in clocks
    /\ charSigned \in BOOLEAN
    /\ pc = "idle"
    /\ rstack = <<>>
    /\ cur = NoCall
    /\ byte = 0
    /\ i = 0
    /\ retval = "void"
    /\ log = <<>>
    /\ mark = 0
    /\ lastCmd = [by |-> "none", v |-> 0]
    /\ phase = 0
    /\ txn \in txns
    /\ probe = [n |-> 0, out |-> {}, differ |-> FALSE, reset |-> FALSE]

Init == InitWith({16 * 1000000}, {NoTxn}, {248, 251})

Next == Caller \/ Driver \/ HwComplete

Spec == Init /\ [][Next]_vars


\* the linear flow, for every address, direction and byte list
Txns == {[a |-> a, rw |-> rw, bs |-> bs] : a \in Addrs, rw \in RWs, bs \in ByteLists}

InitLinear == InitWith({16 * 1000000}, Txns, {251})

NextLinear ==
    \/ Transaction
    \/ i2cInit
    \/ i2cStart
    \/ i2cStart_chk
    \/ i2cSendAddress
    \/ i2cSendAddress_chk
    \/ i2cAwaitCompletion
    \/ i2cSendByte
    \/ i2cSendByte_chk
    \/ i2cSendData
    \/ i2cStop
    \/ HwComplete

SpecLinear == InitLinear /\ [][NextLinear]_vars

\* i2cInit alone, for every build clock
CallerClock ==
    /\ Enter([NoCall EXCEPT !.fn = "i2cInit"])
    /\ log' = <<>>
    /\ mark' = 0
    /\ UNCHANGED phase

InitClock == InitWith(CpuClocks, {NoTxn}, {248, 249, 250, 251})

NextClock == CallerClock \/ i2cInit

SpecClock == InitClock /\ [][NextClock]_vars

\* any calls in any order, recording the calls i2cSendAddress(txn.a, txn.rw)
ProbeTxns == {[a |-> a, rw |-> rw, bs |-> <<>>] : a \in Addrs, rw \in RWs}

InitAddr == InitWith({16 * 1000000}, ProbeTxns, {248})

CallerAddr ==
    /\ \E c \in {d \in Calls : d.fn \in {"i2cSendAddress", "i2cStart", "i2cStop"}} : Enter(c)
    /\ log' = <<>>
    /\ mark' = 0
    /\ UNCHANGED phase

NextAddr ==
    \/ CallerAddr
    \/ i2cStart
    \/ i2cStart_chk
    \/ i2cSendAddress
    \/ i2cSendAddress_chk
    \/ i2cAwaitCompletion
    \/ i2cStop
    \/ HwComplete

SpecAddr == InitAddr /\ [][NextAddr]_vars


-----------------------------------------------------------------------------
(* Properties *)

TWSTA(v) == Bit(v, 5)
TWSTO(v) == Bit(v, 4)
TWEN(v) == Bit(v, 2)

\* the <<start, stop, enable>> bits of a command
CmdBits(v) == <<TWSTA(v), TWSTO(v), TWEN(v)>>

\* the part of the log made by the call in progress (or the last one)
Segment == SubSeq(log, mark + 1, Len(log))

\* C1: every command the driver writes to the control register carries the
\* bits of the table: i2cStart start=1 stop=0 enable=1; i2cSendAddress and
\* i2cSendByte start=0 stop=0 enable=1; i2cStop start=0 stop=1 enable=1.  The
\* last command written is always one of these three patterns and never has
\* start and stop set together.
C1_CommandBits ==
    /\ lastCmd.by = "i2cStart" => CmdBits(lastCmd.v) = <<1, 0, 1>>
    /\ lastCmd.by \in {"i2cSendAddress", "i2cSendByte"} => CmdBits(lastCmd.v) = <<0, 0, 1>>
    /\ lastCmd.by = "i2cStop" => CmdBits(lastCmd.v) = <<0, 1, 1>>
    /\ lastCmd.by # "none" =>
          /\ CmdBits(lastCmd.v) \in {<<1, 0, 1>>, <<0, 0, 1>>, <<0, 1, 1>>}
          /\ ~(TWSTA(lastCmd.v) = 1 /\ TWSTO(lastCmd.v) = 1)
    /\ \A k \in 1..Len(log) :
          (log[k].k = "write" /\ log[k].r = "TWCR") =>
              CmdBits(log[k].v) \in {<<1, 0, 1>>, <<0, 0, 1>>, <<0, 1, 1>>}

\* a stop command has been written after a start and a transmit command
C1_Witness ==
    /\ lastCmd.by = "i2cStop"
    /\ pc = "idle"
    /\ TWSTO(TWCR) = 1
    /\ TWDR # 255

\* C2: i2cSendAddress(a, d) leaves (a << 1) | d in the data register: bit 0
\* equals the direction flag the caller passed.
C2_BitZeroIsDirection ==
    (cur.fn = "i2cSendAddress" /\ pc # "i2cSendAddress") =>
        TWDR = 2 * cur.a + cur.rw

\* C3: i2cCheckStatus(c) returns true if and only if the status register
\* masked with 0xF8 equals c, for every c in 0..255.
C3_CheckStatusIff ==
    (cur.fn = "i2cCheckStatus" /\ pc = "idle") =>
        (retval = 1 <=> log[Len(log)].v = cur.c)

\* C4: when F_CPU >= 16 * F_SCL, i2cInit leaves F_CPU / (8 * F_SCL) - 2 in the
\* bit-rate register and zero in the prescaler bits; with F_CPU = 16000000 the
\* bit-rate register holds 3.
C4_Divisor ==
    (cur.fn = "i2cInit" /\ pc = "idle" /\ F_CPU >= 16 * F_SCL) =>
        /\ TWBR = (F_CPU \div (8 * F_SCL)) - 2
        /\ BitAnd(TWSR, 3) = 0
        /\ F_CPU = 16 * 1000000 => TWBR = 3

\* i2cInit has run on a 16 MHz build
C4_Witness ==
    /\ cur.fn = "i2cInit"
    /\ pc = "idle"
    /\ F_CPU = 16 * 1000000
    /\ TWBR = 3
    /\ TWSR = 248


\* what one call i2cSendByte(b) does when the peripheral reports status st
ByteTrace(b, st) ==
    <<Wr("TWDR", b), Wr("TWCR", CMD_SEND), Wait,
      Chk(st, IF st = TW_MT_DATA_ACK THEN 1 ELSE 0)>>

\* what the calls i2cSendByte(bs[1]); ...; i2cSendByte(bs[n]) do in that order,
\* the k-th of them meeting the status the k-th check of the log l read
RECURSIVE SeqTrace(_, _, _)
SeqTrace(bs, l, k) ==
    IF k > Len(bs) THEN <<>>
    ELSE ByteTrace(bs[k], IF 4 * k <= Len(l) THEN l[4 * k].v ELSE -1) \o SeqTrace(bs, l, k + 1)

\* C5: i2cSendData(n, b1, ..., bn) makes the same data-register writes,
\* commands, waits and status reads as i2cSendByte(b1); ...; i2cSendByte(bn),
\* whatever the status after each byte: nothing is skipped, repeated or
\* reordered, and a mismatch does not stop the next byte.
C5_SendDataIsSendBytes ==
    /\ (cur.fn = "i2cSendByte" /\ pc = "idle") => log = SeqTrace(cur.bs, log, 1)
    /\ (cur.fn = "i2cSendData" /\ pc = "idle") => log = SeqTrace(cur.bs, log, 1)
    /\ (cur.fn = "i2cSendData" /\ pc = "i2cSendData") =>
          log = SeqTrace(SubSeq(cur.bs, 1, i), log, 1)

\* i2cSendData has sent two different bytes, the first not acknowledged
C5_Witness ==
    /\ cur.fn = "i2cSendData"
    /\ pc = "idle"
    /\ Len(cur.bs) = 2
    /\ cur.bs[1] # cur.bs[2]
    /\ Len(log) = 8
    /\ log[4].x = 0
    /\ log[8].x = 1

\* C6: i2cAwaitCompletion returns only when TWCR bit 7 is set; as long as the
\* flag stays clear the driver stays in the wait and writes no register.
C6_AwaitNoTimeout ==
    [][pc = "i2cAwaitCompletion" =>
          /\ pc' # pc => Bit(TWCR, 7) = 1
          /\ (Bit(TWCR, 7) = 0 /\ Bit(TWCR', 7) = 0) =>
                /\ pc' = pc
                /\ rstack' = rstack
                /\ log' = log
                /\ lastCmd' = lastCmd
                /\ <<TWCR, TWSR, TWDR, TWBR>>' = <<TWCR, TWSR, TWDR, TWBR>>]_vars

\* i2cSendByte, called from i2cSendData, waits for a flag that is not set
C6_Witness ==
    /\ pc = "i2cAwaitCompletion"
    /\ rstack = <<"i2cSendByte_chk", "i2cSendData", "idle">>
    /\ Bit(TWCR, 7) = 0

\* C7: i2cStop makes exactly one control-register write and returns, without
\* polling the completion flag or reading the status register; it can always
\* take its step, whatever the state of the peripheral.
C7_StopFireAndForget ==
    /\ pc = "i2cStop" => ENABLED i2cStop
    /\ cur.fn = "i2cStop" => pc \in {"i2cStop", "idle"}
    /\ (cur.fn = "i2cStop" /\ pc = "idle") => log = <<Wr("TWCR", CMD_STOP)>>

\* i2cStop has returned although the flag is clear and will not be raised
C7_Witness ==
    /\ cur.fn = "i2cStop"
    /\ pc = "idle"
    /\ Bit(TWCR, 7) = 0
    /\ ~ENABLED HwComplete


\* the register writes in a log, in order
Writes(l) == SelectSeq(l, LAMBDA e : e.k = "write")

RECURSIVE ByteWrites(_, _)
ByteWrites(bs, k) ==
    IF k > Len(bs) THEN <<>>
    ELSE <<Wr("TWDR", bs[k]), Wr("TWCR", CMD_SEND)>> \o ByteWrites(bs, k + 1)

\* the register writes of the first p calls of the linear flow with arguments
\* txn: they depend on the arguments alone
TxnWrites(p) ==
    (IF p >= 1 THEN <<Wr("TWSR", 0), Wr("TWBR", BitRate)>> ELSE <<>>)
    \o (IF p >= 2 THEN <<Wr("TWCR", CMD_START)>> ELSE <<>>)
    \o (IF p >= 3 THEN <<Wr("TWDR", AddressByte(txn.a, txn.rw)), Wr("TWCR", CMD_SEND)>>
        ELSE <<>>)
    \o (IF p >= 4 THEN ByteWrites(txn.bs, 1) ELSE <<>>)
    \o (IF p >= 5 THEN <<Wr("TWCR", CMD_STOP)>> ELSE <<>>)

\* C8: no primitive aborts, retries or backs off on a status mismatch.  In
\* the linear flow the register writes made by a call and by every later call
\* are those the arguments determine, whatever status each check read, and
\* the caller gets nothing back: every call returns void to an empty stack.
C8_WritesIgnoreStatus ==
    pc = "idle" =>
        /\ Writes(log) = TxnWrites(phase)
        /\ retval = "void"
        /\ rstack = <<>>

\* the whole flow has run with two data bytes and every status check failed
C8_Witness ==
    /\ pc = "idle"
    /\ phase = 5
    /\ Len(txn.bs) = 2
    /\ Len(log) = 18
    /\ \A k \in 1..Len(log) : log[k].k = "check" => log[k].x = 0

\* the same flow with every status check matching
C8_AllAcked ==
    /\ pc = "idle"
    /\ phase = 5
    /\ Len(txn.bs) = 2
    /\ \A k \in 1..Len(log) : log[k].k = "check" => log[k].x = 1

\* in the log segment g, every register write is followed by a wait for the
\* completion flag and then a status comparison
Awaited(g) ==
    \A k \in 1..Len(g) :
        g[k].k = "write" =>
            \E w \in (k + 1)..Len(g) :
                /\ g[w].k = "wait"
                /\ \E c \in (w + 1)..Len(g) : g[c].k = "check"

\* C9 as stated: in the linear flow every register write of every operation,
\* clock configuration and stop command included, is followed by a wait for
\* the completion flag and a status comparison before the operation returns.
C9_EveryWriteAwaited ==
    (pc = "idle" /\ phase > 0) => Awaited(Segment)

\* C9 as amended: the register writes of i2cStart, i2cSendAddress and
\* i2cSendByte (i2cSendData) are followed by a wait and a status comparison
\* before the operation returns; i2cInit and i2cStop only write: no wait and
\* no status comparison follows their writes.
C9_CommandWritesAwaited ==
    (pc = "idle" /\ phase > 0) =>
        /\ cur.fn \in {"i2cStart", "i2cSendAddress", "i2cSendData"} => Awaited(Segment)
        /\ cur.fn \in {"i2cInit", "i2cStop"} =>
              /\ Segment # <<>>
              /\ \A k \in 1..Len(Segment) : Segment[k].k = "write"

\* the flow has finished: every operation has returned, i2cStop last
C9_Witness ==
    /\ pc = "idle"
    /\ phase = 5
    /\ cur.fn = "i2cStop"
    /\ Len(txn.bs) = 2
    /\ Segment = <<Wr("TWCR", CMD_STOP)>>

\* C10: calls of i2cSendAddress with identical (address, direction) write the
\* identical byte to the data register, whatever the control, status and data
\* registers held before and whatever the peripheral reported.
C10_SameInputsSameByte ==
    /\ Cardinality(probe.out) <= 1
    /\ probe.n > 0 => Cardinality(probe.out) = 1

\* two such calls were made, the first on the registers as reset leaves them,
\* a later one with all three registers changed
C10_Witness ==
    /\ probe.n = 2
    /\ probe.reset
    /\ probe.differ
    /\ pc = "idle"


\* the kinds of access one transmission makes, in order: data register,
\* command, wait for the flag, status read
StepOrder ==
    <<[k |-> "write", r |-> "TWDR"], [k |-> "write", r |-> "TWCR"],
      [k |-> "wait", r |-> "TWCR"], [k |-> "check", r |-> "TWSR"]>>

\* the log g follows that order, transmission after transmission
InStepOrder(g) ==
    \A k \in 1..Len(g) :
        [k |-> g[k].k, r |-> g[k].r] = StepOrder[((k - 1) % 4) + 1]

\* C11: within i2cSendAddress and i2cSendByte the steps come in the order
\* data-register write, transmit command, wait until the completion flag is
\* set, status read.  The status is read only after the flag was seen set
\* following the call's own command, and the data register is not written
\* after the command of the same call.
C11_StepOrder ==
    /\ cur.fn \in {"i2cSendAddress", "i2cSendByte"} =>
          /\ InStepOrder(log)
          /\ Len(log) <= 4
          /\ pc = "idle" => Len(log) = 4
    /\ cur.fn = "i2cSendData" => InStepOrder(log)
    /\ pc \in {"i2cSendAddress_chk", "i2cSendByte_chk"} =>
          /\ Bit(TWCR, 7) = 1
          /\ log[Len(log)] = Wait
          /\ log[Len(log) - 1] = Wr("TWCR", CMD_SEND)

\* i2cSendAddress has made its four steps and returned
C11_Witness ==
    /\ cur.fn = "i2cSendAddress"
    /\ pc = "idle"
    /\ Len(log) = 4
    /\ log[1].r = "TWDR"
    /\ log[4].k = "check"


\* C12: the status comparison of i2cSendAddress agrees with the direction on
\* the bus: with the write bit (bit 0 = 0) and status 0x18 (SLA+W acknowledged)
\* it matches, and with the read bit (bit 0 = 1) and status 0x40 (64, SLA+R
\* acknowledged) it reports success too.
C12_CheckAgreesWithDirection ==
    (cur.fn = "i2cSendAddress" /\ pc = "idle") =>
        /\ (Bit(log[1].v, 0) = 0 /\ log[4].v = TW_MT_SLA_ACK) => log[4].x = 1
        /\ (Bit(log[1].v, 0) = 1 /\ log[4].v = 64) => log[4].x = 1

\* the prescaler bits and the bit-rate register
ClockConfig == <<BitAnd(TWSR, 3), TWBR>>

\* C13: only i2cInit writes the clock configuration: no step of i2cStart,
\* i2cSendAddress, i2cSendByte, i2cSendData, i2cAwaitCompletion,
\* i2cCheckStatus or i2cStop, and no step of the peripheral, changes the
\* prescaler bits or the bit-rate register, and none of them logs a write to
\* TWSR or TWBR.
C13_ClockOnlyByInit ==
    /\ [](\A k \in 1..Len(log) :
            (log[k].k = "write" /\ log[k].r \in {"TWSR", "TWBR"}) => cur.fn = "i2cInit")
    /\ [][pc # "i2cInit" => ClockConfig' = ClockConfig]_vars

\* after i2cInit, i2cSendData has run to its end and the configuration of
\* i2cInit is still there
C13_Witness ==
    /\ cur.fn = "i2cSendData"
    /\ pc = "idle"
    /\ Len(log) = 8
    /\ TWBR = 3
    /\ TWSR = TW_MT_DATA_ACK

\* C14: i2cCheckStatus and i2cAwaitCompletion write nothing: the step in which
\* either returns leaves TWCR, TWSR, TWDR and TWBR as they were, and a call of
\* either logs no write.  i2cCheckStatus compares the status register as it
\* is at the moment of the call.
C14_ReadOnly ==
    /\ [](cur.fn \in {"i2cCheckStatus", "i2cAwaitCompletion"} => Writes(log) = <<>>)
    /\ [][(pc \in {"i2cCheckStatus", "i2cAwaitCompletion"} /\ pc' # pc) =>
             <<TWCR, TWSR, TWDR, TWBR>>' = <<TWCR, TWSR, TWDR, TWBR>>]_vars
    /\ [][(pc = "i2cCheckStatus" /\ pc' # pc) =>
             /\ retval' = 1 <=> BitAnd(TWSR, TW_STATUS_MASK) = CharOf(cur.c)
             /\ log'[Len(log')].v = BitAnd(TWSR, TW_STATUS_MASK)]_vars

\* a caller's i2cCheckStatus(TW_MT_DATA_ACK) has returned true: the status it
\* compared is the one the peripheral reported since reset
C14_Witness ==
    /\ cur.fn = "i2cCheckStatus"
    /\ cur.c = TW_MT_DATA_ACK
    /\ pc = "idle"
    /\ retval = 1
    /\ TWDR # 255
    /\ Bit(TWCR, 7) = 1

-----------------------------------------------------------------------------
(* The linear flow on a responsive bus *)

\* the linear flow to one slave, for every direction and byte list
TxnsFair == {t \in Txns : t.a = 80}

InitFair == InitWith({16 * 1000000}, TxnsFair, {251})

\* The processor keeps executing the driver and its caller, and the
\* peripheral finishes every start and transmit command it was given.
Fairness ==
    /\ WF_vars(Transaction)
    /\ WF_vars(i2cInit)
    /\ WF_vars(i2cStart)
    /\ WF_vars(i2cStart_chk)
    /\ WF_vars(i2cSendAddress)
    /\ WF_vars(i2cSendAddress_chk)
    /\ WF_vars(i2cAwaitCompletion)
    /\ WF_vars(i2cSendByte)
    /\ WF_vars(i2cSendByte_chk)
    /\ WF_vars(i2cSendData)
    /\ WF_vars(i2cStop)
    /\ WF_vars(HwComplete)

SpecFair == InitFair /\ [][NextLinear]_vars /\ Fairness

\* the commands written to the control register, in order
Commands(l) == SelectSeq(l, LAMBDA e : e.k = "write" /\ e.r = "TWCR")

\* the linear flow has made its five calls and the last has returned
Finished == phase = 5 /\ pc = "idle"

\* C15: if the peripheral eventually sets the completion flag after every
\* start and transmit command, the flow i2cInit; i2cStart; i2cSendAddress;
\* i2cSendData(n, ...); i2cStop finishes, for every n and every combination of
\* status codes, and has then issued exactly n + 3 commands.
C15_FlowFinishes ==
    /\ <>Finished
    /\ [](Finished => Len(Commands(log)) = Len(txn.bs) + 3)

\* a flow with two data bytes has finished
C15_Witness ==
    /\ Finished
    /\ Len(txn.bs) = 2
    /\ Len(Commands(log)) = 5

-----------------------------------------------------------------------------
(* Writes and the completion flag *)

\* the step appends a write to the data or the control register to the log
WritesDataOrCommand ==
    \E k \in (Len(log) + 1)..Len(log') :
        log'[k].k = "write" /\ log'[k].r \in {"TWDR", "TWCR"}

\* C16: in the linear flow, against a peripheral that clears the completion
\* flag when a command is written and sets it when the phase finishes, every
\* write to the data register and every command after i2cStart is made in a
\* state where the completion flag is set.
C16_WritesWhenFlagSet ==
    [][(WritesDataOrCommand /\ pc # "i2cStart") => Bit(TWCR, 7) = 1]_vars

\* i2cStop is about to issue its command after two data bytes were sent
C16_Witness ==
    /\ pc = "i2cStop"
    /\ Bit(TWCR, 7) = 1
    /\ Len(txn.bs) = 2
    /\ Len(Commands(log)) = 4

-----------------------------------------------------------------------------
(* Interrupt and enable bits *)

TWINT(v) == Bit(v, 7)
TWEA(v) == Bit(v, 6)
TWIE(v) == Bit(v, 0)

\* the flag-clear and enable bits are set, interrupt and acknowledge are not
PolledMaster(v) == TWINT(v) = 1 /\ TWEN(v) = 1 /\ TWIE(v) = 0 /\ TWEA(v) = 0

\* C17: every value the driver writes to the control register has bit 7 and
\* bit 2 set and bit 0 and bit 6 clear, so once the driver has written a
\* command the register never has the interrupt enabled or the peripheral
\* disabled, whatever calls follow.
C17_ControlBits ==
    /\ \A k \in 1..Len(log) :
          (log[k].k = "write" /\ log[k].r = "TWCR") => PolledMaster(log[k].v)
    /\ lastCmd.by # "none" =>
          /\ PolledMaster(lastCmd.v)
          /\ TWIE(TWCR) = 0
          /\ TWEN(TWCR) = 1
          /\ TWEA(TWCR) = 0

\* a stop command written after a transmit command has returned
C17_Witness ==
    /\ cur.fn = "i2cStop"
    /\ pc = "idle"
    /\ Len(Commands(log)) = 1
    /\ TWCR = CMD_STOP - 128
    /\ TWDR = 165

=============================================================================
